---- MODULE Spec2Model ----
(***************************************************************************)
(* A model of the weather-app service: the location-input parser, the      *)
(* geocoding and weather clients, the HTTP handlers of weather/api.py and  *)
(* the locations store of weather/crud.py.                                 *)
(*                                                                         *)
(* Strings are sequences of one-character strings.  A float is the exact   *)
(* decimal it was read from, [num, den] with den a power of ten and no     *)
(* trailing zero in the fraction; den = 0 stands for "no value" (None).    *)
(***************************************************************************)
EXTENDS Integers, Sequences, FiniteSets, TLC

VARIABLES
    loc,        \* the input string of the request (loc=... / text input)
    endpoint,   \* which operation handled it: "none" until one has run
    parsed,     \* outcome of parse_input
    geoCalls,   \* the calls of geocode: [address, out], in order
    geoSent,    \* upstream requests the geocoding client has sent
    geoEnv,     \* what geocode ran against: GEOCODER_EMAIL and the answer
    wxCalls,    \* calls of the weather client: [fn, lat, lon], in order
    upstream,   \* the weather service's answer to the one request sent
    fetched,    \* outcome of fetch_current / fetch_5day
    status,     \* HTTP status of the response (0: none yet)
    rows,       \* committed contents of the locations table
    clock,      \* the database server's now()
    last        \* the last /locations request and what it did

vars == <<loc, endpoint, parsed, geoCalls, geoSent, geoEnv, wxCalls,
          upstream, fetched, status, rows, clock, last>>

weatherVars == <<loc, endpoint, parsed, geoCalls, geoSent, geoEnv, wxCalls,
                 upstream, fetched, status>>
storeVars == <<rows, clock, last>>

----------------------------------------------------------------------------
(* Bounds *)

MaxTokens == 3      \* an input is at most this many lexicon words
MaxExtraDays == 1   \* a daily array is at most this much longer than asked
MaxRows == 2        \* the locations table holds at most this many rows
MaxClock == 1       \* the database clock stops here

----------------------------------------------------------------------------
(* Characters, floats *)

Digit == {"0", "1", "2", "3", "4", "5", "6", "7", "8", "9"}
Space == {" ", "\t", "\n"}

DigitVal(c) ==
    CASE c = "0" -> 0 [] c = "1" -> 1 [] c = "2" -> 2 [] c = "3" -> 3
      [] c = "4" -> 4 [] c = "5" -> 5 [] c = "6" -> 6 [] c = "7" -> 7
      [] c = "8" -> 8 [] c = "9" -> 9

RECURSIVE DigitsVal(_)
DigitsVal(ds) ==
    IF ds = <<>> THEN 0
    ELSE DigitsVal(SubSeq(ds, 1, Len(ds) - 1)) * 10 + DigitVal(ds[Len(ds)])

RECURSIVE Pow10(_)
Pow10(n) == IF n = 0 THEN 1 ELSE 10 * Pow10(n - 1)

None == [num |-> 0, den |-> 0]

RECURSIVE Norm(_, _)
Norm(n, d) ==
    IF d > 1 /\ n % 10 = 0 THEN Norm(n \div 10, d \div 10)
    ELSE [num |-> n, den |-> d]

Num(n) == [num |-> n, den |-> 1]

\* x <= y for two floats
Leq(x, y) == x.num * y.den <= y.num * x.den

RECURSIVE IndexOf(_, _, _)
IndexOf(s, c, i) ==
    IF i > Len(s) THEN 0 ELSE IF s[i] = c THEN i ELSE IndexOf(s, c, i + 1)

\* Python's float() on a string the pattern's group matched:
\* [sign] digits [. digits]
float(g) ==
    LET body == IF g[1] \in {"-", "+"} THEN Tail(g) ELSE g
        dot  == IndexOf(body, ".", 1)
        ip   == IF dot = 0 THEN body ELSE SubSeq(body, 1, dot - 1)
        fp   == IF dot = 0 THEN <<>> ELSE SubSeq(body, dot + 1, Len(body))
        mag  == DigitsVal(ip) * Pow10(Len(fp)) + DigitsVal(fp)
    IN  Norm(IF g[1] = "-" THEN 0 - mag ELSE mag, Pow10(Len(fp)))

----------------------------------------------------------------------------
(* The coordinate pattern                                                  *)
(*   \s*([-+]?\d+(\.\d+)?)\s*,\s*([-+]?\d+(\.\d+)?)\s*$   with re.match    *)
(* No two alternatives of the pattern start with the same character, so    *)
(* the leftmost-longest scan below finds the match whenever there is one.  *)

RECURSIVE SpanEnd(_, _, _)
SpanEnd(s, i, cls) ==
    IF i <= Len(s) /\ s[i] \in cls THEN SpanEnd(s, i + 1, cls) ELSE i

\* [signs]?\d+(\.\d+)? at position i: the position after it, 0 if none
NumberEnd(s, i, signs) ==
    LET a == IF i <= Len(s) /\ s[i] \in signs THEN i + 1 ELSE i
        b == SpanEnd(s, a, Digit)
        c == IF b <= Len(s) /\ s[b] = "." THEN SpanEnd(s, b + 1, Digit) ELSE b
    IN  IF b = a THEN 0 ELSE IF c > b + 1 THEN c ELSE b

NoMatch == [ok |-> FALSE, g1 |-> <<>>, g3 |-> <<>>]

CoordMatch(s, signs) ==
    LET p1 == SpanEnd(s, 1, Space)
        e1 == NumberEnd(s, p1, signs)
        p2 == SpanEnd(s, e1, Space)
        p3 == SpanEnd(s, p2 + 1, Space)
        e2 == NumberEnd(s, p3, signs)
        p4 == SpanEnd(s, e2, Space)
    IN  IF e1 = 0 THEN NoMatch
        ELSE IF ~(p2 <= Len(s) /\ s[p2] = ",") THEN NoMatch
        ELSE IF e2 = 0 THEN NoMatch
        ELSE IF p4 # Len(s) + 1 THEN NoMatch
        ELSE [ok |-> TRUE, g1 |-> SubSeq(s, p1, e1 - 1),
                           g3 |-> SubSeq(s, p3, e2 - 1)]

\* the mutant: the pattern without its (\.\d+)? groups
COORD_RE_no_fraction(s) ==
    LET m == CoordMatch(s, {"-", "+"})
    IN  IF m.ok /\ IndexOf(m.g1, ".", 1) = 0 /\ IndexOf(m.g3, ".", 1) = 0
        THEN m ELSE NoMatch

\* api.py's pattern
COORD_RE(s) == CoordMatch(s, {"-", "+"})

\* streamlit_frontend.py's pattern, the same text
UI_COORD_RE(s) == CoordMatch(s, {"-", "+"})

----------------------------------------------------------------------------
(* Outcomes: a returned coordinate pair, or the exception raised *)

Outcome(kind, why, lat, lon) ==
    [kind |-> kind, why |-> why, lat |-> lat, lon |-> lon]

Returned(lat, lon) == Outcome("ok", "", lat, lon)
Raised(kind, why) == Outcome(kind, why, None, None)
NotRun == Outcome("none", "", None, None)

----------------------------------------------------------------------------
(* The geocoding service as the client sees it: whether GEOCODER_EMAIL is  *)
(* set, whether the request succeeds, and the shape of the JSON body.      *)

Absent == [kind |-> "absent", val |-> None]
Junk == [kind |-> "junk", val |-> None]
Field(v) == [kind |-> "num", val |-> v]

GeoBodies ==
    {[shape |-> s, lat |-> Absent, lon |-> Absent] :
        s \in {"badjson", "dict", "empty"}}
    \cup {[shape |-> "list", lat |-> a, lon |-> b] :
            a \in {Absent, Junk, Field(Norm(455, 10)), Field(Num(95))},
            b \in {Absent, Junk, Field(Num(10))}}

DefaultGeoBody ==
    [shape |-> "list", lat |-> Field(Norm(455, 10)), lon |-> Field(Num(10))]

GeoEnvs ==
    {[email |-> FALSE, http |-> "ok", body |-> DefaultGeoBody],
     [email |-> TRUE, http |-> "fail", body |-> DefaultGeoBody]}
    \cup {[email |-> TRUE, http |-> "ok", body |-> b] : b \in GeoBodies}

\* geocode has not been called
NoGeoEnv == [email |-> FALSE, http |-> "none", body |-> DefaultGeoBody]

\* the mutant: the request goes out before GEOCODER_EMAIL is looked at
geocode_sends_before_contact_check(address, env) ==
    IF ~env.email THEN [out |-> Raised("RuntimeError", "config"), sent |-> 1]
    ELSE IF env.http = "fail"
        THEN [out |-> Raised("ConnectionError", "geocoding"), sent |-> 1]
    ELSE IF env.body.shape = "badjson"
        THEN [out |-> Raised("ValueError", "malformed"), sent |-> 1]
    ELSE IF env.body.shape # "list"
        THEN [out |-> Raised("ValueError", "not_found"), sent |-> 1]
    ELSE IF env.body.lat.kind # "num" \/ env.body.lon.kind # "num"
        THEN [out |-> Raised("ValueError", "malformed"), sent |-> 1]
    ELSE [out |-> Returned(env.body.lat.val, env.body.lon.val), sent |-> 1]

\* weather/geocode.py geocode: [out, sent], sent the upstream requests made
geocode(address, env) ==
    IF ~env.email THEN [out |-> Raised("RuntimeError", "config"), sent |-> 0]
    ELSE IF env.http = "fail"
        THEN [out |-> Raised("ConnectionError", "geocoding"), sent |-> 1]
    ELSE IF env.body.shape = "badjson"
        THEN [out |-> Raised("ValueError", "malformed"), sent |-> 1]
    ELSE IF env.body.shape # "list"
        THEN [out |-> Raised("ValueError", "not_found"), sent |-> 1]
    ELSE IF env.body.lat.kind # "num" \/ env.body.lon.kind # "num"
        THEN [out |-> Raised("ValueError", "malformed"), sent |-> 1]
    ELSE [out |-> Returned(env.body.lat.val, env.body.lon.val), sent |-> 1]

\* streamlit_frontend.py geocode: no contact check, nothing caught
ui_geocode(address, env) ==
    IF env.http = "fail"
        THEN [out |-> Raised("RequestException", "geocoding"), sent |-> 1]
    ELSE IF env.body.shape = "badjson"
        THEN [out |-> Raised("ValueError", "malformed"), sent |-> 1]
    ELSE IF env.body.shape = "empty"
        THEN [out |-> Raised("ValueError", "not_found"), sent |-> 1]
    ELSE IF env.body.shape = "dict"
        THEN [out |-> Raised("KeyError", "malformed"), sent |-> 1]
    ELSE IF env.body.lat.kind = "absent"
        THEN [out |-> Raised("KeyError", "malformed"), sent |-> 1]
    ELSE IF env.body.lat.kind = "junk"
        THEN [out |-> Raised("ValueError", "malformed"), sent |-> 1]
    ELSE IF env.body.lon.kind = "absent"
        THEN [out |-> Raised("KeyError", "malformed"), sent |-> 1]
    ELSE IF env.body.lon.kind = "junk"
        THEN [out |-> Raised("ValueError", "malformed"), sent |-> 1]
    ELSE [out |-> Returned(env.body.lat.val, env.body.lon.val), sent |-> 1]

----------------------------------------------------------------------------
(* parse_input: [out, calls, sent], calls the calls of geocode it made,    *)
(* each with the address handed over and what came back                    *)

\* the mutant: the longitude is held to the latitude's bound
InRange_lat_bound_for_lon(lat, lon) ==
    /\ Leq(Num(-90), lat) /\ Leq(lat, Num(90))
    /\ Leq(Num(-90), lon) /\ Leq(lon, Num(90))

\* -90 <= lat <= 90 and -180 <= lon <= 180
InRange(lat, lon) ==
    /\ Leq(Num(-90), lat) /\ Leq(lat, Num(90))
    /\ Leq(Num(-180), lon) /\ Leq(lon, Num(180))

Parsed(out, calls, sent) == [out |-> out, calls |-> calls, sent |-> sent]

\* the environment the parser's call of geocode met, if it made one
Met(p, env) == IF p.calls = <<>> THEN NoGeoEnv ELSE env

GeoCall(address, out) == [address |-> address, out |-> out]

\* the mutant: the range is validated on the geocoded pair as well
parse_input_validates_geocoded(user_input, env) ==
    LET coords == COORD_RE(user_input)
        g == geocode(user_input, env)
        out == IF coords.ok
               THEN Returned(float(coords.g1), float(coords.g3))
               ELSE g.out
        calls == IF coords.ok THEN <<>> ELSE <<GeoCall(user_input, g.out)>>
    IN  IF out.kind = "ok" /\ ~InRange(out.lat, out.lon)
        THEN Parsed(Raised("ValueError", "out_of_range"), calls,
                    IF coords.ok THEN 0 ELSE g.sent)
        ELSE Parsed(out, calls, IF coords.ok THEN 0 ELSE g.sent)

parse_input(user_input, env) ==
    LET coords == COORD_RE(user_input)
        lat == float(coords.g1)
        lon == float(coords.g3)
        g == geocode(user_input, env)
    IN  IF coords.ok
        THEN IF ~InRange(lat, lon)
             THEN Parsed(Raised("ValueError", "out_of_range"), <<>>, 0)
             ELSE Parsed(Returned(lat, lon), <<>>, 0)
        ELSE Parsed(g.out, <<GeoCall(user_input, g.out)>>, g.sent)

ui_parse_input(inp, env) ==
    LET m == UI_COORD_RE(inp)
        g == ui_geocode(inp, env)
    IN  IF m.ok THEN Parsed(Returned(float(m.g1), float(m.g3)), <<>>, 0)
        ELSE Parsed(g.out, <<GeoCall(inp, g.out)>>, g.sent)

----------------------------------------------------------------------------
(* The weather service as the client sees it: whether the request          *)
(* succeeds, the JSON's shape, whether "current_weather" is there, what    *)
(* "daily" is, and the four daily arrays (a list, null, or no such key).   *)
(* A body that is no JSON makes resp.json() raise ValueError ("bad") or,   *)
(* from requests 2.27 on, requests.JSONDecodeError, which is a             *)
(* RequestException as well and is caught as one ("bad_rq").               *)

ForecastDays == 5

MaxDays == ForecastDays + MaxExtraDays

List(items) == [kind |-> "list", items |-> items]
Null == [kind |-> "null", items |-> <<>>]
NoKey == [kind |-> "absent", items |-> <<>>]

\* the arrays the service sends: day ordinals, and values that tell the
\* arrays and the days apart
Times(n) == [i \in 1..n |-> i]
MaxTemps(n) == [i \in 1..n |-> 30 + i]
MinTemps(n) == [i \in 1..n |-> 10 + i]
Codes(n) == [i \in 1..n |-> 60 + i]

\* an array as the service may send it: missing, null, or any prefix of
\* the longest
ArrayShapes(longest) ==
    {Null, NoKey} \cup {List(SubSeq(longest, 1, n)) : n \in 0..Len(longest)}

WxEnv(http, json, current, daily, t, hi, lo, c) ==
    [http |-> http, json |-> json, current |-> current, daily |-> daily,
     time |-> t, tmax |-> hi, tmin |-> lo, code |-> c]

WellFormed(n) ==
    WxEnv("ok", "dict", TRUE, "dict", List(Times(n)), List(MaxTemps(n)),
          List(MinTemps(n)), List(Codes(n)))

Broken(http, json, current, daily) ==
    WxEnv(http, json, current, daily, NoKey, NoKey, NoKey, NoKey)

BrokenEnvs ==
    {Broken("fail", "dict", FALSE, "absent")}
    \cup {Broken("ok", j, FALSE, "absent") : j \in {"bad", "bad_rq", "list", "dict"}}
    \cup {Broken("ok", "dict", TRUE, "notdict")}

\* every answer, for the weather client on its own
FetchEnvs ==
    BrokenEnvs
    \cup {WxEnv("ok", "dict", TRUE, "dict", t, hi, lo, c) :
            t \in ArrayShapes(Times(MaxDays)),
            hi \in ArrayShapes(MaxTemps(MaxDays)),
            lo \in ArrayShapes(MinTemps(MaxDays)),
            c \in ArrayShapes(Codes(MaxDays))}

\* the answers the handlers are run against: no connection, no JSON, JSON
\* without the expected key, a well-formed answer, arrays of unequal length
HandlerEnvs ==
    {Broken("fail", "dict", FALSE, "absent"),
     Broken("ok", "bad", FALSE, "absent"),
     Broken("ok", "dict", FALSE, "absent"),
     WellFormed(ForecastDays),
     [WellFormed(ForecastDays) EXCEPT !.code = List(Codes(ForecastDays - 1))]}

\* no request has been sent to the service
NoAnswer == WxEnv("none", "none", FALSE, "absent", NoKey, NoKey, NoKey, NoKey)

Fetched(kind, why, current, forecast) ==
    [kind |-> kind, why |-> why, current |-> current, forecast |-> forecast]

NotFetched == Fetched("none", "", FALSE, <<>>)

\* weather_app.py fetch_current; current: data["current_weather"] returned
fetch_current(lat, lon, env) ==
    IF env.http = "fail" \/ env.json = "bad_rq"
        THEN Fetched("ConnectionError", "weather", FALSE, <<>>)
    ELSE IF env.json = "bad" THEN Fetched("ValueError", "malformed", FALSE, <<>>)
    ELSE IF env.json # "dict" \/ ~env.current
        THEN Fetched("ValueError", "malformed", FALSE, <<>>)
    ELSE Fetched("ok", "", TRUE, <<>>)

Day(date, tmax, tmin, code) ==
    [date |-> date, temp_max |-> tmax, temp_min |-> tmin, weathercode |-> code]

Min(a, b) == IF a <= b THEN a ELSE b

\* zip(times, max_temps, min_temps, weathercodes) into day records
ZipDays(t, hi, lo, c) ==
    [i \in 1..Min(Min(Len(t), Len(hi)), Min(Len(lo), Len(c))) |->
        Day(t[i], hi[i], lo[i], c[i])]

\* weather_app.py fetch_5day.  len(a) == len(b) == len(c) == len(d) is
\* evaluated left to right and stops at the first unequal pair; len(None)
\* raises TypeError; payload.get on a JSON list raises AttributeError.
fetch_5day(lat, lon, env) ==
    IF env.http = "fail" \/ env.json = "bad_rq"
        THEN Fetched("ConnectionError", "weather", FALSE, <<>>)
    ELSE IF env.json = "bad" THEN Fetched("ValueError", "malformed", FALSE, <<>>)
    ELSE IF env.json # "dict" THEN Fetched("AttributeError", "", FALSE, <<>>)
    ELSE IF env.daily # "dict" THEN Fetched("ValueError", "malformed", FALSE, <<>>)
    ELSE IF env.time.kind = "null" \/ env.tmax.kind = "null"
        THEN Fetched("TypeError", "", FALSE, <<>>)
    ELSE IF Len(env.time.items) # Len(env.tmax.items)
        THEN Fetched("ValueError", "unequal", FALSE, <<>>)
    ELSE IF env.tmin.kind = "null" THEN Fetched("TypeError", "", FALSE, <<>>)
    ELSE IF Len(env.tmax.items) # Len(env.tmin.items)
        THEN Fetched("ValueError", "unequal", FALSE, <<>>)
    ELSE IF env.code.kind = "null" THEN Fetched("TypeError", "", FALSE, <<>>)
    ELSE IF Len(env.tmin.items) # Len(env.code.items)
        THEN Fetched("ValueError", "unequal", FALSE, <<>>)
    ELSE Fetched("ok", "", FALSE,
                 ZipDays(env.time.items, env.tmax.items, env.tmin.items,
                         env.code.items))

----------------------------------------------------------------------------
(* The locations table (models.py) and a request's session on it.          *)
(* rows holds what is committed.  The default database is SQLite, whose    *)
(* INTEGER PRIMARY KEY gives a new row the largest id in the table plus 1. *)

Row(id, name, lat, lon, created, updated) ==
    [id |-> id, name |-> name, latitude |-> lat, longitude |-> lon,
     created_at |-> created, updated_at |-> updated]

NoRow == Row(0, "", 0, 0, 0, 0)

\* a field of a request body: not sent, sent as null, or sent with a value
Unset(filler) == [kind |-> "unset", val |-> filler]
NullOf(filler) == [kind |-> "null", val |-> filler]
Val(v) == [kind |-> "val", val |-> v]

Body(name, lat, lon) == [name |-> name, latitude |-> lat, longitude |-> lon]

NoBody == Body(Unset(""), Unset(0), Unset(0))

Names == {"a", "b"}
Latitudes == {45, 91}
Longitudes == {10}

\* schemas.LocationCreate: the three fields are required
CreateBodies ==
    {Body(Val(n), Val(la), Val(lo)) :
        n \in Names, la \in Latitudes, lo \in Longitudes}

\* schemas.LocationUpdate: every field optional, None allowed
UpdateBodies ==
    {Body(n, la, lo) :
        n \in {Unset(""), NullOf("")} \cup {Val(v) : v \in Names},
        la \in {Unset(0)} \cup {Val(v) : v \in Latitudes},
        lo \in {Unset(0)} \cup {Val(v) : v \in Longitudes}}

\* what the database does with a COMMIT and with the SELECT of a refresh
DbEnvs ==
    {[commit |-> "ok", refresh |-> "ok"],
     [commit |-> "fail", refresh |-> "ok"],
     [commit |-> "ok", refresh |-> "fail"]}

MaxId == MaxRows + 1

Ids == 1..MaxId

RECURSIVE MaxOf(_)
MaxOf(S) ==
    IF S = {} THEN 0
    ELSE LET x == CHOOSE y \in S : TRUE
             m == MaxOf(S \ {x})
         IN  IF x > m THEN x ELSE m

\* the mutant: the id is the number of rows plus 1
NextId_row_count(table) == Cardinality(table) + 1

NextId(table) == MaxOf({r.id : r \in table}) + 1

\* what a crud function did: the table after it, the value it returned
\* (NoRow for None), whether it raised, and the session's calls in order
Did(table, result, outcome, commit, calls) ==
    [rows |-> table, result |-> result, outcome |-> outcome,
     commit |-> commit, calls |-> calls]

\* the mutant: the query without its filter, .first() of the whole table
get_location_unfiltered(table, loc_id) ==
    IF table # {} THEN CHOOSE r \in table : TRUE ELSE NoRow

\* crud.get_location: .filter(Location.id == loc_id).first()
get_location(table, loc_id) ==
    IF \E r \in table : r.id = loc_id
    THEN CHOOSE r \in table : r.id = loc_id
    ELSE NoRow

\* the query of get_locations has no ORDER BY: the rows come in whatever
\* order the database scans them, any one of the table's orderings
ScanOrders(table) ==
    {o \in [1..Cardinality(table) -> table] :
        \A i, j \in 1..Cardinality(table) : o[i] = o[j] => i = j}

\* Query(100, ge=1, le=1000)
MaxLimit == 1000

\* the pagination pairs a request may carry, either side of every bound
Skips == {-1, 0, 1}
Limits == {0, 1, MaxLimit, MaxLimit + 1}

\* the mutant: LIMIT counts from the first row, not from the first kept
get_locations_limit_from_start(order, skip, limit) ==
    SubSeq(order, skip + 1, Min(Len(order), limit))

\* crud.get_locations: .offset(skip).limit(limit).all() on the scan
get_locations(order, skip, limit) ==
    SubSeq(order, skip + 1, Min(Len(order), skip + limit))

\* crud.create_location
create_location(table, now, fields, db) ==
    LET db_loc == Row(NextId(table), fields.name.val, fields.latitude.val,
                      fields.longitude.val, now, now)
    IN  IF db.commit = "fail"
        THEN Did(table, NoRow, "SQLAlchemyError", "fail",
                 <<"add", "commit", "rollback">>)
        ELSE IF db.refresh = "fail"
        THEN Did(table \cup {db_loc}, NoRow, "SQLAlchemyError", "ok",
                 <<"add", "commit", "refresh", "rollback">>)
        ELSE Did(table \cup {db_loc}, db_loc, "ok", "ok",
                 <<"add", "commit", "refresh">>)

\* the mutant: the request's unset fields are written too, as the
\* schema's defaults would be without exclude_unset
SetAttrs_all_fields(row, fields) ==
    [row EXCEPT !.name = fields.name.val, !.latitude = fields.latitude.val,
                !.longitude = fields.longitude.val]

\* for field, value in update_data.items(): setattr(db_loc, field, value)
SetAttrs(row, fields) ==
    [row EXCEPT
        !.name = IF fields.name.kind = "val" THEN fields.name.val ELSE @,
        !.latitude = IF fields.latitude.kind = "val" THEN fields.latitude.val ELSE @,
        !.longitude = IF fields.longitude.kind = "val" THEN fields.longitude.val ELSE @]

\* a None set on a nullable=False column: the UPDATE violates NOT NULL
SetsNull(fields) ==
    \/ fields.name.kind = "null"
    \/ fields.latitude.kind = "null"
    \/ fields.longitude.kind = "null"

\* crud.update_location.  The unit of work sends an UPDATE only for
\* attributes whose value differs from the loaded one, and onupdate=now()
\* is part of that UPDATE: with nothing changed updated_at stays.
update_location(table, now, loc_id, fields, db) ==
    LET db_loc == get_location(table, loc_id)
        set == SetAttrs(db_loc, fields)
        dirty == set # db_loc \/ SetsNull(fields)
        written == IF dirty THEN [set EXCEPT !.updated_at = now] ELSE db_loc
        after == (table \ {db_loc}) \cup {written}
    IN  IF db_loc = NoRow THEN Did(table, NoRow, "none", "none", <<"query">>)
        ELSE IF db.commit = "fail" \/ SetsNull(fields)
        THEN Did(table, NoRow, "SQLAlchemyError", "fail",
                 <<"query", "commit", "rollback">>)
        ELSE IF db.refresh = "fail"
        THEN Did(after, NoRow, "SQLAlchemyError", "ok",
                 <<"query", "commit", "refresh", "rollback">>)
        ELSE Did(after, written, "ok", "ok", <<"query", "commit", "refresh">>)

\* the mutant: the DELETE is committed on its own, before the commit that
\* fails
delete_location_autocommit(table, loc_id, db) ==
    LET db_loc == IF \E r \in table : r.id = loc_id
                  THEN CHOOSE r \in table : r.id = loc_id ELSE NoRow
    IN  IF db_loc = NoRow THEN Did(table, NoRow, "none", "none", <<"query">>)
        ELSE IF db.commit = "fail"
        THEN Did(table \ {db_loc}, NoRow, "SQLAlchemyError", "fail",
                 <<"query", "delete", "commit", "rollback">>)
        ELSE Did(table \ {db_loc}, db_loc, "ok", "ok",
                 <<"query", "delete", "commit">>)

\* the mutant: the DELETE takes every row of the deleted row's name
delete_location_by_name(table, loc_id, db) ==
    LET db_loc == IF \E r \in table : r.id = loc_id
                  THEN CHOOSE r \in table : r.id = loc_id ELSE NoRow
    IN  IF db_loc = NoRow THEN Did(table, NoRow, "none", "none", <<"query">>)
        ELSE IF db.commit = "fail"
        THEN Did(table, NoRow, "SQLAlchemyError", "fail",
                 <<"query", "delete", "commit", "rollback">>)
        ELSE Did({r \in table : r.name # db_loc.name}, db_loc, "ok", "ok",
                 <<"query", "delete", "commit">>)

\* crud.delete_location
delete_location(table, loc_id, db) ==
    LET db_loc == get_location(table, loc_id)
    IN  IF db_loc = NoRow THEN Did(table, NoRow, "none", "none", <<"query">>)
        ELSE IF db.commit = "fail"
        THEN Did(table, NoRow, "SQLAlchemyError", "fail",
                 <<"query", "delete", "commit", "rollback">>)
        ELSE Did(table \ {db_loc}, db_loc, "ok", "ok",
                 <<"query", "delete", "commit">>)

----------------------------------------------------------------------------
(* The /locations handlers.  get_db opens the request's session and       *)
(* yields it to the handler; when the handler is left, by return or by     *)
(* exception, the framework resumes get_db, whose finally closes the       *)
(* session.  An exception the handler does not catch is answered 500.      *)
(* Requests are served one at a time: last holds the request being         *)
(* answered until the answer has been sent.                                *)

Request(op, id, body, did, code) ==
    [op |-> op, id |-> id, body |-> body, outcome |-> did.outcome,
     status |-> code, commit |-> did.commit,
     calls |-> <<"open">> \o did.calls, result |-> did.result,
     skip |-> 0, limit |-> 0, listed |-> <<>>]

NoRequest ==
    [op |-> "none", id |-> 0, body |-> NoBody, outcome |-> "none",
     status |-> 0, commit |-> "none", calls |-> <<>>, result |-> NoRow,
     skip |-> 0, limit |-> 0, listed |-> <<>>]

RowStatus(did, found) ==
    IF did.outcome = "SQLAlchemyError" THEN 500
    ELSE IF did.result = NoRow THEN 404 ELSE found

\* POST /locations/
create_loc ==
    /\ last = NoRequest
    /\ Cardinality(rows) < MaxRows
    /\ NextId(rows) <= MaxId
    /\ \E body \in CreateBodies, db \in DbEnvs :
         LET did == create_location(rows, clock, body, db)
         IN  /\ rows' = did.rows
             /\ last' = Request("create", 0, body, did, RowStatus(did, 201))
    /\ UNCHANGED <<weatherVars, clock>>

\* GET /locations/{loc_id}
read_location ==
    /\ last = NoRequest
    /\ \E loc_id \in Ids :
         LET did == Did(rows, get_location(rows, loc_id), "none", "none",
                        <<"query">>)
         IN  last' = Request("read", loc_id, NoBody, did, RowStatus(did, 200))
    /\ UNCHANGED <<weatherVars, rows, clock>>

\* PUT /locations/{loc_id}
update_loc ==
    /\ last = NoRequest
    /\ \E loc_id \in Ids, body \in UpdateBodies, db \in DbEnvs :
         LET did == update_location(rows, clock, loc_id, body, db)
         IN  /\ rows' = did.rows
             /\ last' = Request("update", loc_id, body, did, RowStatus(did, 200))
    /\ UNCHANGED <<weatherVars, clock>>

\* DELETE /locations/{loc_id}
delete_loc ==
    /\ last = NoRequest
    /\ \E loc_id \in Ids, db \in DbEnvs :
         LET did == delete_location(rows, loc_id, db)
         IN  /\ rows' = did.rows
             /\ last' = Request("delete", loc_id, NoBody, did, RowStatus(did, 200))
    /\ UNCHANGED <<weatherVars, clock>>

\* GET /locations/?skip=&limit= : skip has ge=0 and limit ge=1, le=1000,
\* and the framework answers 422 to anything else without calling the
\* handler; the session get_db yields is opened all the same
read_locations ==
    /\ last = NoRequest
    /\ \E skip \in Skips, limit \in Limits, order \in ScanOrders(rows) :
         LET accepted == skip >= 0 /\ limit >= 1 /\ limit <= MaxLimit
             did == IF accepted
                    THEN Did(rows, NoRow, "none", "none", <<"query">>)
                    ELSE Did(rows, NoRow, "none", "none", <<>>)
             listed == IF accepted THEN get_locations(order, skip, limit)
                       ELSE <<>>
         IN  last' = [Request("list", 0, NoBody, did,
                              IF accepted THEN 200 ELSE 422)
                        EXCEPT !.skip = skip, !.limit = limit,
                               !.listed = listed]
    /\ UNCHANGED <<weatherVars, rows, clock>>

\* the database server's clock moves on
Tick ==
    /\ last = NoRequest
    /\ clock < MaxClock
    /\ clock' = clock + 1
    /\ UNCHANGED <<weatherVars, rows, last>>

\* what is left of a request once the handler is done with it and the
\* dependency has exited: how it ended and what was done with its session
Left(req, calls) ==
    [NoRequest EXCEPT !.op = "left", !.outcome = req.outcome,
                      !.status = req.status, !.calls = calls]

\* the mutant: get_db without try/finally, the close after a plain yield
get_db_close_after_yield(req) ==
    IF req.outcome = "SQLAlchemyError" \/ req.status = 404 THEN req
    ELSE Left(req, req.calls \o <<"close">>)

\* get_db's finally: db.close()
get_db_finally(req) == Left(req, req.calls \o <<"close">>)

InSession(req) == req.calls # <<>> /\ req.calls[Len(req.calls)] # "close"

\* the handler has been left and the framework resumes get_db
get_db ==
    /\ InSession(last)
    /\ last' = get_db_finally(last)
    /\ UNCHANGED <<weatherVars, rows, clock>>

\* the dependency has exited and the answer has been sent; the next
\* request may come
Answer ==
    /\ last # NoRequest /\ ~InSession(last)
    /\ last' = NoRequest
    /\ UNCHANGED <<weatherVars, rows, clock>>

StoreInit ==
    /\ loc = <<>>
    /\ endpoint = "none"
    /\ parsed = NotRun /\ geoCalls = <<>> /\ geoSent = 0
    /\ geoEnv = NoGeoEnv
    /\ wxCalls = <<>> /\ upstream = NoAnswer /\ fetched = NotFetched
    /\ status = 0
    /\ rows = {} /\ clock = 0 /\ last = NoRequest

StoreNext ==
    \/ create_loc \/ read_locations \/ read_location \/ update_loc
    \/ delete_loc \/ get_db \/ Tick \/ Answer

SpecStore == StoreInit /\ [][StoreNext]_vars

\* The requests and their sessions with the database clock standing
\* still; the framework always resumes a dependency it has entered.
SessionNext ==
    \/ create_loc \/ read_locations \/ read_location \/ update_loc
    \/ delete_loc \/ get_db \/ Answer

SpecSession == StoreInit /\ [][SessionNext]_vars /\ WF_vars(get_db)

----------------------------------------------------------------------------
(* The inputs: up to MaxTokens words of a lexicon that holds the pattern's *)
(* characters, numbers on either side of both bounds, and a letter.        *)

Lexicon ==
    {<<" ">>, <<",">>, <<".">>, <<"x">>, <<"-">>,
     <<"9", "0">>, <<"-", "9", "0">>, <<"+", "9", "0">>,
     <<"9", "0", ".", "5">>, <<"9", "1">>, <<"-", "9", "1">>,
     <<"1", "8", "0">>, <<"-", "1", "8", "0">>,
     <<"1", "8", "1">>, <<"-", "1", "8", "1">>}

RECURSIVE Inputs(_)
Inputs(n) ==
    IF n = 0 THEN {<<>>}
    ELSE LET shorter == Inputs(n - 1)
         IN  shorter \cup {p \o w : p \in shorter, w \in Lexicon}

----------------------------------------------------------------------------
(* GET /weather and GET /forecast *)

Call(fn, lat, lon) == [fn |-> fn, lat |-> lat, lon |-> lon]

\* the handler's two try blocks: what the parser's outcome and the weather
\* client's outcome become; an exception no except clause names leaves the
\* handler and the framework answers 500
ParseStatus(out) == IF out.kind = "ValueError" THEN 400 ELSE 500

FetchStatus(f) ==
    IF f.kind = "ok" THEN 200
    ELSE IF f.kind = "ConnectionError" THEN 502 ELSE 500

\* Query(..., min_length=1): the framework refuses an empty loc
Refused(ep) ==
    /\ endpoint' = ep
    /\ status' = 422
    /\ parsed' = NotRun /\ geoCalls' = <<>> /\ geoSent' = 0
    /\ wxCalls' = <<>> /\ upstream' = NoAnswer /\ fetched' = NotFetched

ParseFailed(ep, p) ==
    /\ endpoint' = ep
    /\ parsed' = p.out /\ geoCalls' = p.calls /\ geoSent' = p.sent
    /\ status' = ParseStatus(p.out)
    /\ wxCalls' = <<>> /\ upstream' = NoAnswer /\ fetched' = NotFetched

Answered(ep, fn, p, we, f) ==
    /\ endpoint' = ep
    /\ parsed' = p.out /\ geoCalls' = p.calls /\ geoSent' = p.sent
    /\ wxCalls' = <<Call(fn, p.out.lat, p.out.lon)>>
    /\ upstream' = we
    /\ fetched' = f
    /\ status' = FetchStatus(f)

current ==
    /\ endpoint = "none"
    /\ IF loc = <<>> THEN Refused("weather") /\ geoEnv' = NoGeoEnv
       ELSE \E ge \in GeoEnvs :
              LET p == parse_input(loc, ge)
              IN  /\ geoEnv' = Met(p, ge)
                  /\ IF p.out.kind # "ok" THEN ParseFailed("weather", p)
                     ELSE \E we \in HandlerEnvs :
                            Answered("weather", "fetch_current", p, we,
                                     fetch_current(p.out.lat, p.out.lon, we))
    /\ UNCHANGED <<loc, rows, clock, last>>

forecast ==
    /\ endpoint = "none"
    /\ IF loc = <<>> THEN Refused("forecast") /\ geoEnv' = NoGeoEnv
       ELSE \E ge \in GeoEnvs :
              LET p == parse_input(loc, ge)
              IN  /\ geoEnv' = Met(p, ge)
                  /\ IF p.out.kind # "ok" THEN ParseFailed("forecast", p)
                     ELSE \E we \in HandlerEnvs :
                            Answered("forecast", "fetch_5day", p, we,
                                     fetch_5day(p.out.lat, p.out.lon, we))
    /\ UNCHANGED <<loc, rows, clock, last>>

\* the UI's parse_input, run on a form's text
ui_parse ==
    /\ endpoint = "none"
    /\ \E ge \in GeoEnvs :
         LET p == ui_parse_input(loc, ge)
         IN  /\ endpoint' = "ui"
             /\ parsed' = p.out /\ geoCalls' = p.calls /\ geoSent' = p.sent
             /\ geoEnv' = Met(p, ge)
    /\ UNCHANGED <<loc, wxCalls, upstream, fetched, status, rows, clock, last>>

NoStore == /\ rows = {} /\ clock = 0 /\ last = NoRequest

WeatherInit ==
    /\ loc \in Inputs(MaxTokens)
    /\ endpoint = "none"
    /\ parsed = NotRun /\ geoCalls = <<>> /\ geoSent = 0
    /\ geoEnv = NoGeoEnv
    /\ wxCalls = <<>> /\ upstream = NoAnswer /\ fetched = NotFetched
    /\ status = 0
    /\ NoStore

WeatherNext == current \/ forecast \/ ui_parse

SpecWeather == WeatherInit /\ [][WeatherNext]_vars

----------------------------------------------------------------------------
(* The weather client on its own, against every answer of the service *)

Here == Num(45)

call_fetch_current ==
    /\ endpoint = "none"
    /\ \E we \in FetchEnvs :
         /\ endpoint' = "fetch_current"
         /\ wxCalls' = <<Call("fetch_current", Here, Here)>>
         /\ upstream' = we
         /\ fetched' = fetch_current(Here, Here, we)
    /\ UNCHANGED <<loc, parsed, geoCalls, geoSent, geoEnv, status, rows,
                   clock, last>>

call_fetch_5day ==
    /\ endpoint = "none"
    /\ \E we \in FetchEnvs :
         /\ endpoint' = "fetch_5day"
         /\ wxCalls' = <<Call("fetch_5day", Here, Here)>>
         /\ upstream' = we
         /\ fetched' = fetch_5day(Here, Here, we)
    /\ UNCHANGED <<loc, parsed, geoCalls, geoSent, geoEnv, status, rows,
                   clock, last>>

FetchInit ==
    /\ loc = <<>>
    /\ endpoint = "none"
    /\ parsed = NotRun /\ geoCalls = <<>> /\ geoSent = 0
    /\ geoEnv = NoGeoEnv
    /\ wxCalls = <<>> /\ upstream = NoAnswer /\ fetched = NotFetched
    /\ status = 0
    /\ NoStore

FetchNext == call_fetch_current \/ call_fetch_5day

SpecFetch == FetchInit /\ [][FetchNext]_vars

----------------------------------------------------------------------------
(* What the claims speak of: the grammar of section 8, the two number      *)
(* texts of an input (either side of its comma, blanks stripped), ranges.  *)

SpecGrammar(s) == CoordMatch(s, {"-"}).ok
SignedGrammar(s) == CoordMatch(s, {"-", "+"}).ok

RECURSIVE LastNonSpace(_, _)
LastNonSpace(s, i) ==
    IF i >= 1 /\ s[i] \in Space THEN LastNonSpace(s, i - 1) ELSE i

Strip(s) == SubSeq(s, SpanEnd(s, 1, Space), LastNonSpace(s, Len(s)))

LatText(s) == Strip(SubSeq(s, 1, IndexOf(s, ",", 1) - 1))
LonText(s) == Strip(SubSeq(s, IndexOf(s, ",", 1) + 1, Len(s)))

Less(x, y) == x.num * y.den < y.num * x.den

OutOfRange(lat, lon) ==
    \/ Less(lat, Num(-90)) \/ Less(Num(90), lat)
    \/ Less(lon, Num(-180)) \/ Less(Num(180), lon)

Served == endpoint \in {"weather", "forecast"} /\ status # 422

UpstreamFailed ==
    \/ parsed.kind = "ConnectionError"
    \/ parsed.kind = "ValueError" /\ parsed.why = "malformed"
    \/ fetched.kind \in {"ConnectionError", "ValueError"}

\* C1: GET /weather and GET /forecast answer 400 to an invalid location,
\* 502 to every upstream connectivity or malformed-response failure, of
\* the geocoding client or of the weather client, and 200 only when the
\* parse and the fetch both succeeded; no failure leaves the handler
\* unmapped (the framework's 500).
C1_StatusFollowsOutcome ==
    Served =>
        /\ (parsed.kind = "ValueError" /\ parsed.why = "out_of_range"
                => status = 400)
        /\ (UpstreamFailed => status = 502)
        /\ (status = 200 <=> parsed.kind = "ok" /\ fetched.kind = "ok")
        /\ status # 500

\* C2 as stated: an input of the grammar -?\d+(\.\d+)? , -?\d+(\.\d+)? is
\* returned as its two numbers, and geocode is not called.
C2_GrammarReturnsPair ==
    endpoint # "none" /\ status # 422 /\ SpecGrammar(loc) =>
        /\ parsed = Returned(float(LatText(loc)), float(LonText(loc)))
        /\ geoCalls = <<>> /\ geoSent = 0

\* C2 as amended: on an input of the grammar parse_input never calls
\* geocode; the UI's parser returns the two numbers, and the service's
\* returns them when -90 <= lat <= 90 and -180 <= lon <= 180 and raises
\* ValueError (out of range) otherwise.
C2_GrammarNeverGeocodes ==
    endpoint # "none" /\ status # 422 /\ SpecGrammar(loc) =>
        LET lat == float(LatText(loc))
            lon == float(LonText(loc))
        IN  /\ geoCalls = <<>> /\ geoSent = 0
            /\ parsed = IF endpoint # "ui" /\ OutOfRange(lat, lon)
                        THEN Raised("ValueError", "out_of_range")
                        ELSE Returned(lat, lon)

\* a signed, fractional input of the grammar has been parsed to its numbers
C2_Witness ==
    /\ endpoint = "weather" /\ SpecGrammar(loc)
    /\ parsed = Returned(Norm(-90, 1), Norm(905, 10))

\* C3 as stated: a non-empty input outside the grammar with -? signs (a
\* number with a leading + is outside it) makes parse_input call geocode
\* exactly once, with the whole input, and its outcome is that call's.
C3_NonGrammarGeocodes ==
    endpoint # "none" /\ loc # <<>> /\ ~SpecGrammar(loc) =>
        /\ Len(geoCalls) = 1
        /\ geoCalls[1].address = loc
        /\ parsed = geoCalls[1].out

\* C3 as amended: a non-empty input outside the grammar with [-+]? signs
\* makes parse_input call geocode exactly once, with the whole input, and
\* its outcome (a returned pair or an exception) is that call's.
C3_UnsignedNonGrammarGeocodes ==
    endpoint # "none" /\ loc # <<>> /\ ~SignedGrammar(loc) =>
        /\ Len(geoCalls) = 1
        /\ geoCalls[1].address = loc
        /\ parsed = geoCalls[1].out

\* an address was geocoded once and the pair that came back was returned
C3_Witness ==
    /\ endpoint = "forecast" /\ loc = <<"x", ",", "x">>
    /\ Len(geoCalls) = 1 /\ geoCalls[1].address = loc
    /\ parsed.kind = "ok" /\ parsed = geoCalls[1].out

\* C4: a coordinate pair in loc with |lat| > 90 or |lon| > 180 is answered
\* 400 and the weather client is not called; a pair within the bounds,
\* the bounds themselves included, is parsed and handed to the weather
\* client.
C4_RangeEnforced ==
    Served /\ SignedGrammar(loc) =>
        LET lat == float(LatText(loc))
            lon == float(LonText(loc))
        IN  IF OutOfRange(lat, lon)
            THEN status = 400 /\ wxCalls = <<>> /\ fetched = NotFetched
            ELSE /\ status # 400
                 /\ parsed = Returned(lat, lon)
                 /\ Len(wxCalls) = 1
                 /\ wxCalls[1].lat = lat /\ wxCalls[1].lon = lon

\* a pair just beyond the longitude bound has been refused
C4_Witness ==
    /\ endpoint = "forecast" /\ loc = <<"9", "0", ",", "-", "1", "8", "1">>
    /\ status = 400 /\ wxCalls = <<>>

\* the arrays of the daily object; a missing key counts as the empty array
DailyArrays == <<upstream.time, upstream.tmax, upstream.tmin, upstream.code>>

HasDailyArrays ==
    /\ endpoint = "fetch_5day"
    /\ upstream.http = "ok" /\ upstream.json = "dict" /\ upstream.daily = "dict"
    /\ \A k \in 1..4 : DailyArrays[k].kind # "null"

\* C5: fetch_5day raises ValueError whenever the four daily arrays are not
\* all of one length, and what it returns on any payload it accepts is
\* exactly 5 day records, record i made of element i of each array.
C5_FiveDaysInOrder ==
    /\ HasDailyArrays /\ (\E j, k \in 1..4 :
                            Len(DailyArrays[j].items) # Len(DailyArrays[k].items))
          => fetched.kind = "ValueError"
    /\ endpoint = "fetch_5day" /\ fetched.kind = "ok"
          => /\ Len(fetched.forecast) = ForecastDays
             /\ \A i \in 1..ForecastDays :
                  fetched.forecast[i] =
                      Day(upstream.time.items[i], upstream.tmax.items[i],
                          upstream.tmin.items[i], upstream.code.items[i])

----------------------------------------------------------------------------
(* The store's claims.  A step that serves a request is one whose next     *)
(* state holds it in last; rows is then the table before, rows' after.     *)

Stored(table, id) == {r \in table : r.id = id}

TheRow(table, id) == CHOOSE r \in Stored(table, id) : TRUE

Written(f, old) == IF f.kind = "val" THEN f.val ELSE old

\* C6: the record create_location returns is stored under its id with the
\* name, latitude and longitude that were passed, no other stored record
\* has that id, and its created_at equals its updated_at.
C6_CreateThenGet ==
    last.op = "create" /\ last.outcome = "ok" =>
        LET got == get_location(rows, last.result.id)
        IN  /\ got # NoRow
            /\ got.name = last.body.name.val
            /\ got.latitude = last.body.latitude.val
            /\ got.longitude = last.body.longitude.val
            /\ got.created_at = got.updated_at
            /\ \A r \in rows : r # got => r.id # got.id

\* a second record was created, after the clock had moved, beside a first
C6_Witness ==
    /\ last.op = "create" /\ last.outcome = "ok"
    /\ Cardinality(rows) = 2
    /\ last.result.created_at = 1
    /\ last.result \in rows

FrameKept(old, new, b) ==
    /\ new.id = old.id
    /\ new.name = Written(b.name, old.name)
    /\ new.latitude = Written(b.latitude, old.latitude)
    /\ new.longitude = Written(b.longitude, old.longitude)
    /\ new.created_at = old.created_at

AdvancesAlways(old, new, b) ==
    /\ FrameKept(old, new, b)
    /\ clock > old.updated_at => new.updated_at > old.updated_at

AdvancesOnChange(old, new, b) ==
    /\ FrameKept(old, new, b)
    /\ new.updated_at =
          IF \/ new.name # old.name \/ new.latitude # old.latitude
             \/ new.longitude # old.longitude
          THEN clock ELSE old.updated_at
    /\ new.updated_at >= old.updated_at

\* C7 as stated: a successful update_location, whatever subset of the
\* fields it is given (none, or values equal to the stored ones, included),
\* overwrites the supplied fields, keeps the others and created_at, and
\* advances updated_at (here: whenever the clock has moved since the row
\* was last written).
C7_UpdateAdvancesAlways ==
    [][last'.op = "update" /\ last'.outcome = "ok" =>
          AdvancesAlways(TheRow(rows, last'.id), TheRow(rows', last'.id),
                         last'.body)]_vars

\* C7 as amended: a successful update_location overwrites the supplied
\* fields and keeps the others and created_at; updated_at becomes the
\* database's current time when a supplied value differs from the stored
\* one, and stays as it was when none does (no field supplied, or only
\* values equal to the stored ones); it never moves back.
C7_UpdateAdvancesOnChange ==
    [][last'.op = "update" /\ last'.outcome = "ok" =>
          AdvancesOnChange(TheRow(rows, last'.id), TheRow(rows', last'.id),
                           last'.body)]_vars

\* one field of a row was rewritten after the clock had moved
C7_Witness ==
    /\ last.op = "update" /\ last.outcome = "ok"
    /\ last.body.name.kind = "val" /\ last.body.latitude.kind = "unset"
    /\ last.result \in rows
    /\ last.result.updated_at > last.result.created_at

\* C8: update_location and delete_location of an id that is not stored
\* return None, answered 404, raise nothing, and leave the table as it was.
C8_MissingIdNotFound ==
    [][last'.op \in {"update", "delete"} /\ Stored(rows, last'.id) = {} =>
          /\ last'.outcome = "none" /\ last'.result = NoRow
          /\ last'.status = 404
          /\ rows' = rows]_vars

\* a delete of an id that is not stored, on a table that holds rows
C8_Witness ==
    /\ last.op = "delete" /\ last.status = 404
    /\ rows # {} /\ Stored(rows, last.id) = {}

RECURSIVE Position(_, _, _)
Position(calls, c, i) ==
    IF i > Len(calls) THEN 0
    ELSE IF calls[i] = c THEN i ELSE Position(calls, c, i + 1)

Visible(table, req) ==
    CASE req.op = "create" ->
            \E r \in table :
                /\ r.name = req.body.name.val
                /\ r.latitude = req.body.latitude.val
                /\ r.longitude = req.body.longitude.val
      [] req.op = "update" ->
            \E r \in Stored(table, req.id) :
                /\ r.name = Written(req.body.name, r.name)
                /\ r.latitude = Written(req.body.latitude, r.latitude)
                /\ r.longitude = Written(req.body.longitude, r.longitude)
      [] req.op = "delete" -> Stored(table, req.id) = {}

\* C9: when the commit of create_location, update_location or
\* delete_location fails, rollback is called next, the error reaches the
\* caller, and the table is what it was before the operation; when the
\* commit succeeds the whole change is in the table.
C9_CommitOrRollback ==
    [][/\ last'.commit = "fail" =>
            /\ rows' = rows
            /\ last'.outcome = "SQLAlchemyError" /\ last'.status = 500
            /\ Position(last'.calls, "rollback", 1)
                  = Position(last'.calls, "commit", 1) + 1
       /\ last'.commit = "ok" => Visible(rows', last')]_vars

\* a delete whose commit failed: the row is still there
C9_Witness ==
    /\ last.op = "delete" /\ last.commit = "fail"
    /\ Stored(rows, last.id) # {}

\* C10: every stored location has its latitude in [-90, 90] and its
\* longitude in [-180, 180].
C10_StoredInRange ==
    \A r \in rows :
        /\ -90 <= r.latitude /\ r.latitude <= 90
        /\ -180 <= r.longitude /\ r.longitude <= 180

----------------------------------------------------------------------------
(* The geocoding client as the service's parser calls it *)

GeocodeRan == endpoint \in {"weather", "forecast"} /\ geoCalls # <<>>

\* the JSON body is a result list: empty, or its first result with lat, lon
ResultList(body) == body.shape \in {"empty", "list"}

Numeric(body) == body.lat.kind = "num" /\ body.lon.kind = "num"

\* C11: geocode checks its failures in this order, each with its own
\* error: with GEOCODER_EMAIL unset a configuration error and no upstream
\* request; otherwise exactly one request, and a connectivity error on a
\* transport or HTTP failure, a not-found error on an empty result list, a
\* malformed-response error when the first result's lat or lon is absent
\* or not a number, and the first result's pair otherwise.
C11_GeocodeFailureOrder ==
    GeocodeRan =>
        LET out == geoCalls[1].out
            body == geoEnv.body
        IN  /\ Len(geoCalls) = 1
            /\ IF ~geoEnv.email
               THEN out = Raised("RuntimeError", "config") /\ geoSent = 0
               ELSE /\ geoSent = 1
                    /\ IF geoEnv.http = "fail"
                       THEN out = Raised("ConnectionError", "geocoding")
                       ELSE IF ~ResultList(body) THEN out.kind # "ok"
                       ELSE IF body.shape = "empty"
                       THEN out = Raised("ValueError", "not_found")
                       ELSE IF ~Numeric(body)
                       THEN out = Raised("ValueError", "malformed")
                       ELSE out = Returned(body.lat.val, body.lon.val)

\* one request was sent and the first result had a latitude but a
\* longitude that is no number: the last failure of the order
C11_Witness ==
    /\ GeocodeRan /\ geoEnv.email /\ geoEnv.http = "ok" /\ geoSent = 1
    /\ geoEnv.body.shape = "list"
    /\ geoEnv.body.lat.kind = "num" /\ geoEnv.body.lon = Junk
    /\ geoCalls[1].out = Raised("ValueError", "malformed")

----------------------------------------------------------------------------
(* GET /locations/ *)

Max(a, b) == IF a >= b THEN a ELSE b

AcceptedPage(req) == req.skip >= 0 /\ 1 <= req.limit /\ req.limit <= MaxLimit

\* C12: GET /locations/ with skip >= 0 and 1 <= limit <= 1000 returns at
\* most limit records, the stored records after the first skip (each once,
\* as many as are left up to limit), and leaves the store as it was; with
\* skip < 0 or limit outside [1, 1000] the request is refused (422) and no
\* query is sent to the store.
C12_PageOfStore ==
    [][last'.op = "list" =>
          /\ rows' = rows
          /\ IF AcceptedPage(last')
             THEN /\ last'.status = 200
                  /\ Len(last'.listed) <= last'.limit
                  /\ Len(last'.listed)
                        = Min(last'.limit,
                              Max(0, Cardinality(rows) - last'.skip))
                  /\ \A i \in 1..Len(last'.listed) : last'.listed[i] \in rows
                  /\ \A i, j \in 1..Len(last'.listed) :
                        last'.listed[i] = last'.listed[j] => i = j
             ELSE /\ last'.status = 422 /\ last'.listed = <<>>
                  /\ Position(last'.calls, "query", 1) = 0]_vars

\* a page that skips the first of two stored records and returns the other
C12_Witness ==
    /\ last.op = "list" /\ last.status = 200
    /\ last.skip = 1 /\ last.limit = 1
    /\ Cardinality(rows) = 2 /\ Len(last.listed) = 1 /\ last.listed[1] \in rows

----------------------------------------------------------------------------
(* The request's session *)

RECURSIVE Count(_, _)
Count(calls, c) ==
    IF calls = <<>> THEN 0
    ELSE (IF Head(calls) = c THEN 1 ELSE 0) + Count(Tail(calls), c)

SessionOpen ==
    Count(last.calls, "open") = 1 /\ Count(last.calls, "close") = 0

SessionClosed ==
    /\ Count(last.calls, "open") = 1 /\ Count(last.calls, "close") = 1
    /\ Head(last.calls) = "open"
    /\ last.calls[Len(last.calls)] = "close"

\* C13: the session get_db opens for a request is closed, once and as the
\* last thing done with it, on every way out of the request (a return, a
\* 404, a persistence error re-raised after the rollback), and the request
\* is not finished before it is closed.
C13_SessionClosedOnce ==
    /\ [](last # NoRequest => SessionOpen \/ SessionClosed)
    /\ [][last # NoRequest /\ last' = NoRequest => SessionClosed]_vars
    /\ \A o \in {"ok", "none", "SQLAlchemyError"} :
          (SessionOpen /\ last.outcome = o) ~> (SessionClosed /\ last.outcome = o)

\* an update whose commit failed: rolled back, re-raised, session closed
C13_Witness ==
    /\ last.op = "left" /\ last.outcome = "SQLAlchemyError"
    /\ last.status = 500
    /\ last.calls = <<"open", "query", "commit", "rollback", "close">>

----------------------------------------------------------------------------
(* DELETE /locations/{loc_id} *)

\* C14: a successful delete_location(id) returns the row as it was stored
\* just before, after it get_location(id) finds nothing and a second
\* delete_location(id) returns None as well, whatever the database would do
\* with a commit, and every other stored record is what it was.
C14_DeleteRemovesOneRow ==
    [][last'.op = "delete" /\ last'.outcome = "ok" =>
          /\ last'.status = 200
          /\ last'.result \in rows /\ last'.result.id = last'.id
          /\ get_location(rows', last'.id) = NoRow
          /\ \A db \in DbEnvs :
                LET again == delete_location(rows', last'.id, db)
                IN  /\ again.result = NoRow /\ again.outcome = "none"
                    /\ again.rows = rows'
          /\ rows' = rows \ {last'.result}]_vars

\* one of two stored records of one name was deleted; the other is there
C14_Witness ==
    /\ last.op = "delete" /\ last.outcome = "ok"
    /\ last.result.id = last.id /\ last.result \notin rows
    /\ \E r \in rows : r.name = last.result.name /\ r.id # last.id

====
